---- MODULE Spec2Model ----
(***************************************************************************)
(* Model of the review-dispatch engine of Code-Review-GPT-Gitlab:          *)
(* MainReviewHandle.merge_handle / default_handle, chat_review and the     *)
(* retry-decorated worker generate_review_note                             *)
(* (src/review_engine/handler/default_handler.py), with the configuration  *)
(* of src/config/config.py.                                                *)
(*                                                                         *)
(* A string is a tuple of one-character strings, so that str.endswith is   *)
(* computed on characters.  Python's None is the record NoneVal.           *)
(***************************************************************************)
EXTENDS Integers, Sequences, FiniteSets, TLC

----------------------------------------------------------------------------
(* Bounds of the model *)

\* longest short change list drawn for an event
MaxChanges == 3

\* most fragments a text given to remove_think_content is built from
MaxPieces == 5

\* most events handled one after the other
MaxEvents == 2

----------------------------------------------------------------------------
(* Configuration: src/config/config.py *)

MAX_FILES == 50

EXCLUDE_FILE_TYPES ==
    << <<".", "j", "s">>,
       <<".", "t", "s">>,
       <<".", "t", "s", "x">>,
       <<".", "l", "e", "s", "s">>,
       <<".", "p", "y">>,
       <<".", "j", "a", "v", "a">>,
       <<".", "c", "l", "a", "s", "s">>,
       <<".", "v", "u", "e">>,
       <<".", "g", "o">>,
       <<".", "c">>,
       <<".", "c", "p", "p">> >>

IGNORE_FILE_TYPES == << <<"m", "o", "d", ".", "g", "o">> >>

\* @retry(stop_max_attempt_number=3, ...) on generate_review_note
stop_max_attempt_number == 3

----------------------------------------------------------------------------
(* Python values *)

NoneVal == [kind |-> "None"]

\* str.endswith(ext)
EndsWith(s, ext) ==
    /\ Len(ext) <= Len(s)
    /\ SubSeq(s, Len(s) - Len(ext) + 1, Len(s)) = ext

\* any(path.endswith(ext) for ext in exts)
AnyEndsWith(path, exts) == \E k \in 1..Len(exts) : EndsWith(path, exts[k])

\* faulty variant of the filter: the ignore list is not consulted
IsReviewable_includeOnly(change) ==
    AnyEndsWith(change.new_path, EXCLUDE_FILE_TYPES)

\* the filter of chat_review, lines 24-28
IsReviewable(change) ==
    /\ AnyEndsWith(change.new_path, EXCLUDE_FILE_TYPES)
    /\ ~AnyEndsWith(change.new_path, IGNORE_FILE_TYPES)

\* faulty variant: only None is falsy
Truthy_notNone(c) == c.kind = "list"

\* bool(changes): None and the empty list are falsy
Truthy(c) == c.kind = "list" /\ Len(c.items) > 0

----------------------------------------------------------------------------
(* Events the handler can receive *)

Digit == <<"0", "1", "2", "3", "4", "5", "6", "7", "8", "9">>

ExtPy == <<".", "p", "y">>
ExtMd == <<".", "m", "d">>

PathUniverse ==
    << <<"a", ".", "p", "y">>,
       <<"b", ".", "j", "s">>,
       <<"x", ".", "g", "o">>,
       <<"c", ".", "m", "d">>,
       <<"m", "o", "d", ".", "g", "o">> >>

\* one entry of the fetcher's change list; the diff is identified with
\* the file it belongs to
Change(p) == [new_path |-> p]

NumberedPath(i, ext) == <<"f", Digit[(i \div 10) + 1], Digit[(i % 10) + 1]>> \o ext

\* a change list of n distinct files, the first with extension firstExt
LongChanges(n, firstExt, restExt) ==
    [i \in 1..n |-> Change(NumberedPath(i, IF i = 1 THEN firstExt ELSE restExt))]

\* the elements of a set of indexes of PathUniverse, ascending
Ascending(S) ==
    CHOOSE f \in [1..Cardinality(S) -> S] :
        \A a, b \in 1..Cardinality(S) : a < b => f[a] < f[b]

ShortChanges ==
    { [k \in 1..Cardinality(S) |-> Change(PathUniverse[Ascending(S)[k]])] :
        S \in { T \in SUBSET (1..Len(PathUniverse)) : Cardinality(T) <= MaxChanges } }

EventChanges ==
    ShortChanges \cup
    { LongChanges(MAX_FILES, ExtPy, ExtMd),
      LongChanges(MAX_FILES, ExtMd, ExtMd),
      LongChanges(MAX_FILES + 1, ExtPy, ExtPy),
      LongChanges(MAX_FILES + 1, ExtMd, ExtMd) }

\* what the fetcher does for an event
FetchModes == {"ok", "none", "raise_changes", "raise_info"}

\* how many calls of model.generate_text for a file fail before one
\* succeeds: none, two, or every call of the attempt budget
FailPlans == {0, 2, stop_max_attempt_number}

\* the plans of a change list: only reviewable files among the first
\* Len(PathUniverse) entries have failing calls
PlansFor(cs) ==
    LET W == IF Len(cs) < Len(PathUniverse) THEN Len(cs) ELSE Len(PathUniverse)
        Heads == { f \in [1..W -> FailPlans] :
                     \A i \in 1..W : ~IsReviewable(cs[i]) => f[i] = 0 }
    IN  { [i \in 1..Len(cs) |-> IF i <= W THEN f[i] ELSE 0] : f \in Heads }

----------------------------------------------------------------------------
VARIABLES
    fetchMode,       \* behaviour of the fetcher for this event
    changesIn,       \* the change list the fetcher holds
    failPlan,        \* per change: failing generate_text calls before success
    pc,              \* position of the handling thread
    exc,             \* exception that left merge_handle, or "none"
    changes,         \* local `changes` of merge_handle / default_handle
    nextIdx,         \* position of the submit loop of chat_review
    dispatched,      \* chat_review has been invoked
    wpc,             \* per change: position of its process_change task
    wattempt,        \* per change: attempt number of the retry wrapper
    wcontent,        \* per change: local response_content
    wresult,         \* per change: value returned by generate_review
    response,        \* the model object's stored response
    result_lock,     \* holder of result_lock, 0 when free
    review_results,  \* the shared list of chat_review
    review_info,     \* value returned by chat_review
    replies,         \* notifications passed to reply.add_reply, in order
    logs,            \* diagnostic log lines written (tags)
    llmCalls,        \* per change: number of model.generate_text calls
    eventNo,         \* number of the event being handled
    raisedBefore,    \* an earlier event ended by an exception
    thinkIn,         \* a text given to remove_think_content
    thinkOnce,       \* remove_think_content(thinkIn)
    thinkTwice,      \* remove_think_content(thinkOnce)
    thinkStep        \* how many of the two applications are done

vars == <<fetchMode, changesIn, failPlan, pc, exc, changes, nextIdx,
          dispatched, wpc, wattempt, wcontent, wresult, response,
          result_lock, review_results, review_info, replies, logs, llmCalls,
          eventNo, raisedBefore, thinkIn, thinkOnce, thinkTwice, thinkStep>>

thinkVars == <<thinkIn, thinkOnce, thinkTwice, thinkStep>>

\* what no step of the handling of one event changes
inputVars == <<fetchMode, changesIn, failPlan, eventNo, raisedBefore, thinkVars>>
workerVars == <<wpc, wattempt, wcontent, wresult, response, result_lock,
                review_results, llmCalls>>

N == Len(changesIn)

\* the events with change list cs: what the fetcher and the backend will
\* do.  A fetcher that fails before the list is read holds no list, and
\* the backend's plan matters only when the fetch succeeds.
EventsOf(cs) ==
    { e \in [fm : FetchModes, cs : {cs}, fp : PlansFor(cs)] :
        /\ e.fm \in {"none", "raise_changes"} => cs = <<>>
        /\ e.fm # "ok" => \A i \in 1..Len(cs) : e.fp[i] = 0 }

Events == UNION { EventsOf(cs) : cs \in EventChanges }

Init ==
    /\ \E e \in Events :
          /\ fetchMode = e.fm
          /\ changesIn = e.cs
          /\ failPlan = e.fp
    /\ eventNo = 1
    /\ raisedBefore = FALSE
    /\ thinkIn = <<>>
    /\ thinkOnce = <<>>
    /\ thinkTwice = <<>>
    /\ thinkStep = 0
    /\ pc = "merge_handle"
    /\ exc = "none"
    /\ changes = NoneVal
    /\ nextIdx = 1
    /\ dispatched = FALSE
    /\ wpc = [i \in 1..Len(changesIn) |-> "unsubmitted"]
    /\ wattempt = [i \in 1..Len(changesIn) |-> 1]
    /\ wcontent = [i \in 1..Len(changesIn) |-> NoneVal]
    /\ wresult = [i \in 1..Len(changesIn) |-> NoneVal]
    /\ response = NoneVal
    /\ result_lock = 0
    /\ review_results = <<>>
    /\ review_info = <<>>
    /\ replies = <<>>
    /\ logs = {}
    /\ llmCalls = [i \in 1..Len(changesIn) |-> 0]

----------------------------------------------------------------------------
(* The handling thread *)

\* merge_handle, lines 94-128: fetch the changes, log them, fetch the
\* info, call default_handle.  len(changes) at line 108 raises TypeError
\* on None; an exception of the fetcher is not caught.
MergeHandle ==
    /\ pc = "merge_handle"
    /\ CASE fetchMode = "raise_changes" ->
              /\ pc' = "raised"
              /\ exc' = "FetchError"
              /\ UNCHANGED changes
         [] fetchMode = "none" ->
              /\ pc' = "raised"
              /\ exc' = "TypeError"
              /\ changes' = NoneVal
         [] fetchMode = "raise_info" ->
              /\ pc' = "raised"
              /\ exc' = "FetchError"
              /\ changes' = [kind |-> "list", items |-> changesIn]
         [] OTHER ->
              /\ pc' = "default_handle"
              /\ exc' = "none"
              /\ changes' = [kind |-> "list", items |-> changesIn]
    /\ UNCHANGED <<inputVars, nextIdx, dispatched, workerVars, review_info,
                   replies, logs>>

\* the filter of default_handle's pre-check, lines 145-146
PassesPreCheck(change) ==
    /\ AnyEndsWith(change.new_path, EXCLUDE_FILE_TYPES)
    /\ ~AnyEndsWith(change.new_path, IGNORE_FILE_TYPES)

\* review_files of default_handle, lines 142-147
ReviewFiles(cs) == SelectSeq(cs, PassesPreCheck)

\* the notifications of default_handle
ReviewComment(info) ==
    [kind |-> "review_comment", target |-> "all", content |-> info]
OpsSuccess(n) ==
    [kind |-> "ops_success", target |-> "dingtalk", content |-> n]
OpsPass(n) ==
    [kind |-> "ops_pass", target |-> "dingtalk", content |-> n]
OpsOverLimit(n) ==
    [kind |-> "ops_over_limit", target |-> "dingtalk", content |-> n]

\* default_handle, lines 130-167 and 219-241: the guards in front of
\* chat_review and the branches that do not review
DefaultHandle ==
    /\ pc = "default_handle"
    /\ IF ~Truthy(changes)
       THEN \* lines 133-135
            /\ logs' = logs \cup {"no_changes"}
            /\ pc' = "returned"
            /\ UNCHANGED <<replies, dispatched>>
       ELSE IF Len(changes.items) > MAX_FILES
       THEN \* lines 137-139
            /\ logs' = logs \cup {"over_limit"}
            /\ pc' = "returned"
            /\ UNCHANGED <<replies, dispatched>>
       ELSE IF ReviewFiles(changes.items) = <<>>
       THEN \* lines 149-151
            /\ logs' = logs \cup {"no_review_files"}
            /\ pc' = "returned"
            /\ UNCHANGED <<replies, dispatched>>
       ELSE IF Truthy(changes) /\ Len(changes.items) <= MAX_FILES
       THEN \* lines 161-167
            /\ pc' = "chat_review"
            /\ dispatched' = TRUE
            /\ UNCHANGED <<replies, logs>>
       ELSE IF Truthy(changes) /\ Len(changes.items) > MAX_FILES
       THEN \* lines 219-235
            /\ replies' = Append(replies, OpsOverLimit(Len(changes.items)))
            /\ pc' = "returned"
            /\ UNCHANGED <<logs, dispatched>>
       ELSE \* lines 237-241
            /\ logs' = logs \cup {"fetch_failed"}
            /\ pc' = "returned"
            /\ UNCHANGED <<replies, dispatched>>
    /\ UNCHANGED <<inputVars, exc, changes, nextIdx, workerVars, review_info>>

\* chat_review, lines 23-31: one turn of the submit loop
Submit ==
    /\ pc = "chat_review"
    /\ nextIdx <= Len(changes.items)
    /\ IF IsReviewable(changes.items[nextIdx])
       THEN wpc' = [wpc EXCEPT ![nextIdx] = "generate_text"]
       ELSE wpc' = wpc
    /\ nextIdx' = nextIdx + 1
    /\ UNCHANGED <<inputVars, pc, exc, changes, dispatched, wattempt,
                   wcontent, wresult, response, result_lock, review_results,
                   review_info, replies, logs, llmCalls>>

\* "\n\n".join(review_results): the pieces with the separator between
\* them; a None among them raises TypeError
Separator == [kind |-> "sep"]

RECURSIVE Join(_)
Join(rs) ==
    IF Len(rs) = 0 THEN <<>>
    ELSE IF Len(rs) = 1 THEN <<rs[1]>>
    ELSE <<rs[1], Separator>> \o Join(Tail(rs))

JoinRaises(rs) == \E k \in 1..Len(rs) : rs[k] = NoneVal

\* faulty variant: the futures are not waited for
Finished_noWait(i) == TRUE

\* a task is over: it returned or its exception is held by the future
Finished(i) == wpc[i] \in {"unsubmitted", "done", "failed"}

\* chat_review, lines 33-35: wait for the futures, leave the executor,
\* join the results
WaitAndJoin ==
    /\ pc = "chat_review"
    /\ nextIdx > Len(changes.items)
    /\ \A i \in 1..Len(changes.items) : Finished(i)
    /\ IF review_results # <<>> /\ JoinRaises(review_results)
       THEN /\ pc' = "raised"
            /\ exc' = "TypeError"
            /\ UNCHANGED review_info
       ELSE /\ pc' = "notify"
            /\ review_info' = (IF review_results # <<>>
                               THEN Join(review_results) ELSE <<>>)
            /\ UNCHANGED exc
    /\ UNCHANGED <<inputVars, changes, nextIdx, dispatched, workerVars,
                   replies, logs>>

\* faulty variant: the number of files that passed the filter
SummaryCount_reviewed(cs) == Len(ReviewFiles(cs))

\* the file count interpolated into the summaries, lines 192 and 210
SummaryCount(cs) == Len(cs)

\* faulty variant: the summary is sent before the comment
SuccessReplies_swapped(info, cs) ==
    <<OpsSuccess(SummaryCount(cs)), ReviewComment(info)>>

\* the two add_reply calls of the Success branch, lines 172-198, in order
SuccessReplies(info, cs) ==
    <<ReviewComment(info), OpsSuccess(SummaryCount(cs))>>

\* default_handle, lines 168-178 and 199-217: after chat_review, the
\* review comment, or the pass notice when there is nothing to post
Notify ==
    /\ pc = "notify"
    /\ IF review_info # <<>>
       THEN /\ replies' = Append(replies, SuccessReplies(review_info, changes.items)[1])
            /\ pc' = "notify_summary"
       ELSE /\ replies' = Append(replies, OpsPass(SummaryCount(changes.items)))
            /\ pc' = "returned"
    /\ UNCHANGED <<inputVars, exc, changes, nextIdx, dispatched, workerVars,
                   review_info, logs>>

\* default_handle, lines 182-198: the ops summary of the Success branch
NotifySummary ==
    /\ pc = "notify_summary"
    /\ replies' = Append(replies, SuccessReplies(review_info, changes.items)[2])
    /\ pc' = "returned"
    /\ UNCHANGED <<inputVars, exc, changes, nextIdx, dispatched, workerVars,
                   review_info, logs>>

----------------------------------------------------------------------------
(* The process_change tasks of the thread pool, one per submitted change *)

\* the k-th generate_text call for change i fails
CallFails(i, k) == k <= failPlan[i]

\* model.generate_text stores the backend's answer in the model object;
\* get_respond_content / get_respond_tokens read it back
ResponseTo(change) == [kind |-> "resp", request |-> change.new_path]

\* faulty variant: the body lets the exception reach the retry wrapper
OnModelError_reraise == "raise"

\* generate_review_note, lines 80-81: what the body does with an exception
\* of the model call: "return_none" (log it, fall off the end) or "raise"
OnModelError == "return_none"

\* faulty variant: a failed attempt is repeated whatever it did, with no
\* stop
ShouldRetry_unbounded(raised, attempt) == TRUE

\* Retrying.call of the decorator at line 38: an attempt that raised is
\* repeated until stop_max_attempt_number; a returned value is final
ShouldRetry(raised, attempt) == raised /\ attempt < stop_max_attempt_number

\* lines 40-64 under the retry wrapper: build the messages, call the model
GenerateText(i) ==
    /\ i \in 1..N
    /\ wpc[i] = "generate_text"
    /\ llmCalls' = [llmCalls EXCEPT ![i] = @ + 1]
    /\ IF ~CallFails(i, llmCalls[i] + 1)
       THEN /\ response' = ResponseTo(changes.items[i])
            /\ wpc' = [wpc EXCEPT ![i] = "get_respond_content"]
            /\ UNCHANGED <<wattempt, wresult, logs>>
       ELSE /\ UNCHANGED response
            /\ logs' = (IF OnModelError = "return_none"
                        THEN logs \cup {"gpt_error"} ELSE logs)
            /\ IF ShouldRetry(OnModelError = "raise", wattempt[i])
               THEN /\ wattempt' = [wattempt EXCEPT ![i] = @ + 1]
                    /\ UNCHANGED <<wpc, wresult>>
               ELSE IF OnModelError = "return_none"
               THEN /\ wresult' = [wresult EXCEPT ![i] = NoneVal]
                    /\ wpc' = [wpc EXCEPT ![i] = "lock"]
                    /\ UNCHANGED wattempt
               ELSE /\ wpc' = [wpc EXCEPT ![i] = "failed"]
                    /\ UNCHANGED <<wattempt, wresult>>
    /\ UNCHANGED <<inputVars, pc, exc, changes, nextIdx, dispatched, wcontent,
                   result_lock, review_results, review_info, replies>>

\* lines 69-71: read the stored response's content and clean it
GetRespondContent(i) ==
    /\ i \in 1..N
    /\ wpc[i] = "get_respond_content"
    /\ wcontent' = [wcontent EXCEPT ![i] = [kind |-> "content", of |-> response.request]]
    /\ wpc' = [wpc EXCEPT ![i] = "get_respond_tokens"]
    /\ UNCHANGED <<inputVars, pc, exc, changes, nextIdx, dispatched, wattempt,
                   wresult, response, result_lock, review_results, review_info,
                   replies, logs, llmCalls>>

\* lines 75-77: the note of a file
ReviewNote(path, tokensOf, content) ==
    [kind |-> "note", path |-> path, tokens |-> tokensOf, content |-> content]

\* lines 74-79: read the stored response's token count, format and
\* return the note
GetRespondTokens(i) ==
    /\ i \in 1..N
    /\ wpc[i] = "get_respond_tokens"
    /\ wresult' = [wresult EXCEPT ![i] =
                      ReviewNote(changes.items[i].new_path, response.request, wcontent[i])]
    /\ wpc' = [wpc EXCEPT ![i] = "lock"]
    /\ UNCHANGED <<inputVars, pc, exc, changes, nextIdx, dispatched, wattempt,
                   wcontent, response, result_lock, review_results, review_info,
                   replies, logs, llmCalls>>

\* process_change, line 19: enter `with result_lock`
AcquireLock(i) ==
    /\ i \in 1..N
    /\ wpc[i] = "lock"
    /\ result_lock = 0
    /\ result_lock' = i
    /\ wpc' = [wpc EXCEPT ![i] = "append"]
    /\ UNCHANGED <<inputVars, pc, exc, changes, nextIdx, dispatched, wattempt,
                   wcontent, wresult, response, review_results, review_info,
                   replies, logs, llmCalls>>

\* faulty variant: the list is replaced instead of extended
Appended_overwrite(rs, r) == <<r>>

\* review_results.append(result), line 20
Appended(rs, r) == Append(rs, r)

\* process_change, line 20: append under the lock and leave the block
AppendResult(i) ==
    /\ i \in 1..N
    /\ wpc[i] = "append"
    /\ result_lock = i
    /\ review_results' = Appended(review_results, wresult[i])
    /\ result_lock' = 0
    /\ wpc' = [wpc EXCEPT ![i] = "done"]
    /\ UNCHANGED <<inputVars, pc, exc, changes, nextIdx, dispatched, wattempt,
                   wcontent, wresult, response, review_info, replies, logs,
                   llmCalls>>

----------------------------------------------------------------------------
Next ==
    \/ MergeHandle
    \/ DefaultHandle
    \/ Submit
    \/ WaitAndJoin
    \/ Notify
    \/ NotifySummary
    \/ \E i \in 1..N : GenerateText(i)
    \/ \E i \in 1..N : GetRespondContent(i)
    \/ \E i \in 1..N : GetRespondTokens(i)
    \/ \E i \in 1..N : AcquireLock(i)
    \/ \E i \in 1..N : AppendResult(i)

Spec == Init /\ [][Next]_vars

----------------------------------------------------------------------------
(* One event after the other *)

\* faulty variant: one results list for all calls of chat_review
ResultsAtCall_shared(old) == old

\* chat_review, line 14: every call starts from a new, empty list
ResultsAtCall(old) == <<>>

\* merge_handle has returned or raised into the host: its frames and
\* arguments are gone; the model object keeps the last response it
\* stored, and the next call of chat_review will make its own list
ReturnToHost ==
    /\ pc \in {"returned", "raised"}
    /\ eventNo < MaxEvents
    /\ raisedBefore' = (raisedBefore \/ pc = "raised")
    /\ pc' = "idle"
    /\ fetchMode' = "ok"
    /\ changesIn' = <<>>
    /\ failPlan' = <<>>
    /\ wpc' = <<>>
    /\ wattempt' = <<>>
    /\ wcontent' = <<>>
    /\ wresult' = <<>>
    /\ llmCalls' = <<>>
    /\ exc' = "none"
    /\ changes' = NoneVal
    /\ nextIdx' = 1
    /\ dispatched' = FALSE
    /\ result_lock' = 0
    /\ review_results' = ResultsAtCall(review_results)
    /\ review_info' = <<>>
    /\ replies' = <<>>
    /\ logs' = {}
    /\ UNCHANGED <<response, eventNo, thinkVars>>

\* the host calls merge_handle for the next event
NextEvent ==
    /\ pc = "idle"
    /\ eventNo < MaxEvents
    /\ eventNo' = eventNo + 1
    /\ \E e \in Events :
          /\ fetchMode' = e.fm
          /\ changesIn' = e.cs
          /\ failPlan' = e.fp
          /\ wpc' = [i \in 1..Len(e.cs) |-> "unsubmitted"]
          /\ wattempt' = [i \in 1..Len(e.cs) |-> 1]
          /\ wcontent' = [i \in 1..Len(e.cs) |-> NoneVal]
          /\ wresult' = [i \in 1..Len(e.cs) |-> NoneVal]
          /\ llmCalls' = [i \in 1..Len(e.cs) |-> 0]
    /\ pc' = "merge_handle"
    /\ UNCHANGED <<exc, changes, nextIdx, dispatched, response, result_lock,
                   review_results, review_info, replies, logs, raisedBefore,
                   thinkVars>>

NextEvents == Next \/ ReturnToHost \/ NextEvent

SpecEvents == Init /\ [][NextEvents]_vars

\* the pool's threads are scheduled and every backend call returns or
\* fails: a step that can be taken is taken
SpecFair == Spec /\ WF_vars(Next)

----------------------------------------------------------------------------
(* remove_think_content, lines 84-90, on characters *)

OpenTag == <<"<", "t", "h", "i", "n", "k", ">">>
CloseTag == <<"<", "/", "t", "h", "i", "n", "k", ">">>

\* the characters str.strip() removes
Whitespace == {" ", "\n", "\t"}

\* tag stands in s at position p
TagAt(s, p, tag) ==
    /\ p + Len(tag) - 1 <= Len(s)
    /\ SubSeq(s, p, p + Len(tag) - 1) = tag

\* the first position from p on where the closing tag stands, 0 if none:
\* where the lazy .*? of the pattern stops
FirstClose(s, p) ==
    LET Q == {q \in p..Len(s) : TagAt(s, q, CloseTag)}
    IN  IF Q = {} THEN 0 ELSE CHOOSE q \in Q : \A r \in Q : q <= r

\* re.sub(r"<think>.*?</think>", "", s, flags=re.DOTALL) from position p:
\* the matches are found left to right in s and are not rescanned
RECURSIVE SubThink(_, _)
SubThink(s, p) ==
    IF p > Len(s) THEN <<>>
    ELSE IF TagAt(s, p, OpenTag) /\ FirstClose(s, p + Len(OpenTag)) # 0
    THEN SubThink(s, FirstClose(s, p + Len(OpenTag)) + Len(CloseTag))
    ELSE <<s[p]>> \o SubThink(s, p + 1)

\* str.strip()
RECURSIVE Strip(_)
Strip(s) ==
    IF Len(s) = 0 THEN s
    ELSE IF s[1] \in Whitespace THEN Strip(Tail(s))
    ELSE IF s[Len(s)] \in Whitespace THEN Strip(SubSeq(s, 1, Len(s) - 1))
    ELSE s

remove_think_content(content) == Strip(SubThink(content, 1))

\* the fragments the texts are built from: whole tags, the two halves of
\* an opening tag, a letter and a blank
Fragments ==
    << OpenTag, CloseTag, <<"<", "t", "h", "i">>, <<"n", "k", ">">>,
       <<"x">>, <<" ">> >>

RECURSIVE Concat(_)
Concat(pieces) ==
    IF Len(pieces) = 0 THEN <<>>
    ELSE Fragments[Head(pieces)] \o Concat(Tail(pieces))

Texts ==
    { Concat(ps) : ps \in UNION { [1..n -> 1..Len(Fragments)] : n \in 0..MaxPieces } }

handlerVars == <<fetchMode, changesIn, failPlan, pc, exc, changes, nextIdx,
                 dispatched, workerVars, review_info, replies, logs, eventNo,
                 raisedBefore>>

\* no event is being handled; a text is about to be cleaned
InitThink ==
    /\ fetchMode = "ok"
    /\ changesIn = <<>>
    /\ failPlan = <<>>
    /\ eventNo = 1
    /\ raisedBefore = FALSE
    /\ pc = "idle"
    /\ exc = "none"
    /\ changes = NoneVal
    /\ nextIdx = 1
    /\ dispatched = FALSE
    /\ wpc = <<>>
    /\ wattempt = <<>>
    /\ wcontent = <<>>
    /\ wresult = <<>>
    /\ response = NoneVal
    /\ result_lock = 0
    /\ review_results = <<>>
    /\ review_info = <<>>
    /\ replies = <<>>
    /\ logs = {}
    /\ llmCalls = <<>>
    /\ thinkIn \in Texts
    /\ thinkOnce = <<>>
    /\ thinkTwice = <<>>
    /\ thinkStep = 0

\* remove_think_content applied to the text
ApplyOnce ==
    /\ thinkStep = 0
    /\ thinkOnce' = remove_think_content(thinkIn)
    /\ thinkStep' = 1
    /\ UNCHANGED <<handlerVars, thinkIn, thinkTwice>>

\* remove_think_content applied to its own result
ApplyTwice ==
    /\ thinkStep = 1
    /\ thinkTwice' = remove_think_content(thinkOnce)
    /\ thinkStep' = 2
    /\ UNCHANGED <<handlerVars, thinkIn, thinkOnce>>

NextThink == ApplyOnce \/ ApplyTwice

SpecThink == InitThink /\ [][NextThink]_vars

----------------------------------------------------------------------------
(* Vocabulary of the claims *)

\* merge_handle is over: it returned or an exception left it
Terminal == pc \in {"returned", "raised"}

Reviewable(i) == IsReviewable(changesIn[i])

\* the backend fails for good: every call of the attempt budget fails
FailsForGood(i) == failPlan[i] >= stop_max_attempt_number

IsNote(x) == x.kind = "note"
IsReviewComment(x) == x.kind = "review_comment"
IsPrimary(x) == x.kind \in {"ops_success", "ops_pass", "ops_over_limit"}

\* the aggregated result holds a note for change i
HasNoteFor(info, i) ==
    \E k \in 1..Len(info) : IsNote(info[k]) /\ info[k].path = changesIn[i].new_path

TotalLlmCalls == \A i \in 1..N : llmCalls[i] = 0

----------------------------------------------------------------------------
(* C1: a reviewable file whose backend call fails on the first and second
   attempt and succeeds on the third still gets a review note, and the note
   is in the aggregated result of the event. *)
C1_RetryThenSucceed ==
    \A i \in 1..N :
        (Terminal /\ dispatched /\ Reviewable(i) /\ failPlan[i] = 2)
            => (pc = "returned" /\ HasNoteFor(review_info, i))

(* C2: when a reviewable file's backend call fails on every attempt,
   chat_review returns normally without raising and the aggregated notes
   hold no entry for that file. *)
C2_ExhaustedExcluded ==
    \A i \in 1..N :
        (Terminal /\ dispatched /\ Reviewable(i) /\ FailsForGood(i))
            => (pc = "returned" /\ exc = "none" /\ ~HasNoteFor(review_info, i))

(* C3: with at least one file reviewed successfully and at least one whose
   backend call fails for good, the event still reaches notification: the
   review comment carrying the successful files' notes, then the ops
   summary, are passed to reply.add_reply. *)
C3_PartialFailureContinues ==
    (/\ Terminal
     /\ dispatched
     /\ \E i \in 1..N : Reviewable(i) /\ failPlan[i] = 0
     /\ \E j \in 1..N : Reviewable(j) /\ FailsForGood(j))
        => /\ Len(replies) = 2
           /\ IsReviewComment(replies[1])
           /\ \A i \in 1..N : (Reviewable(i) /\ failPlan[i] = 0)
                                 => HasNoteFor(replies[1].content, i)
           /\ replies[2].kind = "ops_success"

(* C4: with more than MAX_FILES changed files chat_review is never invoked,
   no LLM call occurs, and exactly one notification is emitted: the
   over-limit notice to the ops channel (dingtalk). *)
C4_OverLimitNotice ==
    (Terminal /\ fetchMode = "ok" /\ N > MAX_FILES)
        => /\ ~dispatched
           /\ TotalLlmCalls
           /\ Len(replies) = 1
           /\ replies[1].kind = "ops_over_limit"
           /\ replies[1].target = "dingtalk"

(* C5: with a non-empty change list of at most MAX_FILES files none of
   which passes the extension filter, a notification is emitted to the ops
   channel and no LLM call occurs. *)
C5_NoReviewableNotice ==
    (/\ Terminal
     /\ fetchMode = "ok"
     /\ N > 0
     /\ N <= MAX_FILES
     /\ \A i \in 1..N : ~Reviewable(i))
        => /\ \E k \in 1..Len(replies) : replies[k].target = "dingtalk"
           /\ TotalLlmCalls

(* C6: every handled event emits exactly one primary notification, and one
   review comment exactly when the aggregated notes are non-empty. *)
C6_ExactlyOnePrimary ==
    (Terminal /\ fetchMode = "ok" /\ N > 0)
        => /\ Len(SelectSeq(replies, IsPrimary)) = 1
           /\ Len(SelectSeq(replies, IsReviewComment)) =
                  (IF SelectSeq(review_info, IsNote) # <<>> THEN 1 ELSE 0)

\* the case of C7: a non-empty list within the limit, every file
\* reviewable, every backend call succeeding
AllReviewableAllSucceed ==
    /\ fetchMode = "ok"
    /\ N > 0
    /\ N <= MAX_FILES
    /\ \A i \in 1..N : Reviewable(i) /\ failPlan[i] = 0

(* C7: for a non-empty change list within MAX_FILES, all reviewable and all
   workers succeeding, in every interleaving the aggregated outcome holds
   exactly one note per file and the Success branch (review comment, then
   ops summary) is taken. *)
C7_AllSucceedAllNoted ==
    (Terminal /\ AllReviewableAllSucceed)
        => /\ pc = "returned"
           /\ Len(SelectSeq(review_info, IsNote)) = N
           /\ \A i \in 1..N :
                 Cardinality({k \in 1..Len(review_info) :
                                 /\ IsNote(review_info[k])
                                 /\ review_info[k].path = changesIn[i].new_path}) = 1
           /\ Len(replies) = 2
           /\ replies[1] = ReviewComment(review_info)
           /\ replies[2].kind = "ops_success"

\* C7's case with the tasks finishing in another order than submitted
C7_Witness ==
    /\ Terminal
    /\ AllReviewableAllSucceed
    /\ N >= 3
    /\ pc = "returned"
    /\ review_info[1].path # changesIn[1].new_path

(* C8: in every interleaving of the tasks' generate_text,
   get_respond_content and get_respond_tokens steps, a file's note carries
   the content and the token count of the response to that file's own
   request. *)
C8_NoteCarriesOwnResponse ==
    \A k \in 1..Len(review_results) :
        IsNote(review_results[k])
            => /\ review_results[k].content.of = review_results[k].path
               /\ review_results[k].tokens = review_results[k].path

(* C9: when fetching the changes or the info fails (get_changes or get_info
   raises, or get_changes yields no value), merge_handle logs the failure
   and returns normally, emits no notification and makes no LLM call. *)
C9_FetchFailureContained ==
    (Terminal /\ fetchMode # "ok")
        => /\ pc = "returned"
           /\ exc = "none"
           /\ "fetch_failed" \in logs
           /\ replies = <<>>
           /\ TotalLlmCalls

(* C10: when dispatch runs and every worker fails, exactly one notification
   is emitted, the ops "pass" notice, and no review comment. *)
C10_AllFailedPassNotice ==
    (/\ Terminal
     /\ dispatched
     /\ \A i \in 1..N : Reviewable(i) => FailsForGood(i))
        => /\ Len(replies) = 1
           /\ replies[1].kind = "ops_pass"

\* a process_change task was created for change i
Submitted(i) == wpc[i] # "unsubmitted"

\* the path of change i has an include suffix / an ignore suffix
MatchesInclude(i) == AnyEndsWith(changesIn[i].new_path, EXCLUDE_FILE_TYPES)
MatchesIgnore(i) == AnyEndsWith(changesIn[i].new_path, IGNORE_FILE_TYPES)

(* C11 as stated: the file count of the Success ops summary is the number
   of files actually reviewed (1 for one reviewable file next to one that
   is filtered out). *)
C11_SummaryCountsReviewed ==
    \A k \in 1..Len(replies) :
        replies[k].kind = "ops_success"
            => replies[k].content =
                   Cardinality({i \in 1..N : MatchesInclude(i) /\ ~MatchesIgnore(i)})

(* C11, amended: the file count of the Success ops summary is the number of
   changed files, len(changes); the notes behind it are one per file that
   passes the filter. *)
C11_SummaryCountsChanges ==
    \A k \in 1..Len(replies) :
        replies[k].kind = "ops_success"
            => /\ replies[k].content = N
               /\ Len(SelectSeq(review_info, IsNote)) =
                      Cardinality({i \in 1..N : MatchesInclude(i) /\ ~MatchesIgnore(i)})

\* the example of C11: a.py next to a markdown file, Success summary sent
C11_Witness ==
    /\ changesIn = <<Change(<<"a", ".", "p", "y">>), Change(<<"c", ".", "m", "d">>)>>
    /\ Len(replies) = 2
    /\ replies[2].kind = "ops_success"
    /\ Len(SelectSeq(review_info, IsNote)) = 1

(* C12: a changed file is submitted to a review task iff its new_path ends
   with an include extension and with no ignore extension; a path matching
   both is never submitted. *)
C12_SubmittedIffReviewable ==
    \A i \in 1..N :
        /\ Submitted(i) => (MatchesInclude(i) /\ ~MatchesIgnore(i))
        /\ (dispatched /\ i < nextIdx /\ MatchesInclude(i) /\ ~MatchesIgnore(i))
               => Submitted(i)

\* the submit loop is over; a file matching both lists was passed over
\* and another file was submitted
C12_Witness ==
    /\ dispatched
    /\ nextIdx > N
    /\ \E i \in 1..N : MatchesInclude(i) /\ MatchesIgnore(i) /\ ~Submitted(i)
    /\ \E j \in 1..N : Submitted(j)
    /\ \E l \in 1..N : ~MatchesInclude(l) /\ ~Submitted(l)

(* C13: remove_think_content is idempotent: applied to its own result it
   changes nothing, for every text. *)
C13_RemoveThinkIdempotent ==
    thinkStep = 2 => thinkTwice = thinkOnce

\* control has left chat_review, by its return or by an exception
LeftChatReview ==
    dispatched /\ pc \in {"notify", "notify_summary", "returned", "raised"}

\* the tasks that have appended their result
DoneTasks == {i \in 1..N : wpc[i] = "done"}

(* C14: appends to the shared results list lose and duplicate nothing: the
   list always holds one entry per task that has appended, and when
   chat_review joins, exactly one entry for each task's result. *)
C14_NoLostNoDuplicateAppend ==
    /\ Len(review_results) = Cardinality(DoneTasks)
    /\ \A i \in DoneTasks :
          IsNote(wresult[i])
              => Cardinality({k \in 1..Len(review_results) :
                                 review_results[k] = wresult[i]}) = 1
    /\ Cardinality({k \in 1..Len(review_results) : review_results[k] = NoneVal})
           = Cardinality({i \in DoneTasks : wresult[i] = NoneVal})
    /\ LeftChatReview => DoneTasks = {i \in 1..N : Submitted(i)}

\* three tasks have appended, not in the order they were submitted
C14_Witness ==
    /\ LeftChatReview
    /\ Len(review_results) = 3
    /\ IsNote(review_results[1])
    /\ review_results[1].path # changesIn[1].new_path

(* C15: chat_review is left only after every submitted task has reached
   its terminal state, a failed task does not keep a sibling from running
   to its own end, and with every backend call returning or failing
   chat_review is eventually left. *)
C15_JoinsAllTasks ==
    /\ [](LeftChatReview
            => \A i \in 1..N :
                  (MatchesInclude(i) /\ ~MatchesIgnore(i))
                      => (wpc[i] \in {"done", "failed"} /\ llmCalls[i] >= 1))
    /\ (dispatched ~> LeftChatReview)

\* chat_review was left with one task failed and a sibling's note appended
C15_Witness ==
    /\ LeftChatReview
    /\ \E i \in 1..N : wpc[i] = "done" /\ wresult[i] = NoneVal /\ failPlan[i] > 0
    /\ \E j \in 1..N : wpc[j] = "done" /\ IsNote(wresult[j])

(* C16: within one event a changed file is handled by at most one review
   task, which appends at most once, and model.generate_text is called at
   most 3 times for the file, whatever the backend's failures. *)
C16_OneTaskBoundedCalls ==
    /\ \A i \in 1..N : llmCalls[i] <= 3
    /\ \A i \in 1..N : ~Submitted(i) => llmCalls[i] = 0
    /\ Len(review_results) <= Cardinality({i \in 1..N : Submitted(i)})
    /\ \A i \in 1..N :
          Cardinality({k \in 1..Len(review_results) :
                          /\ IsNote(review_results[k])
                          /\ review_results[k].path = changesIn[i].new_path}) <= 1

\* an event is over in which the backend failed every call for a file
C16_Witness ==
    /\ Terminal
    /\ dispatched
    /\ \E i \in 1..N : FailsForGood(i) /\ llmCalls[i] >= 1 /\ wpc[i] = "done"

(* C17: with an empty change list default_handle only logs and returns: no
   notification reaches reply.add_reply, chat_review is not invoked and no
   LLM call is made. *)
C17_EmptyChangesLogOnly ==
    (Terminal /\ fetchMode = "ok" /\ N = 0)
        => /\ pc = "returned"
           /\ exc = "none"
           /\ logs = {"no_changes"}
           /\ replies = <<>>
           /\ ~dispatched
           /\ TotalLlmCalls

\* the event with an empty change list has been handled
C17_Witness ==
    /\ Terminal
    /\ fetchMode = "ok"
    /\ changesIn = <<>>
    /\ changes = [kind |-> "list", items |-> <<>>]

\* what an event yields when it is handled alone, from its inputs: how
\* merge_handle ends and which notifications it sends
ReviewableSet == {i \in 1..N : MatchesInclude(i) /\ ~MatchesIgnore(i)}

ReviewRuns ==
    fetchMode = "ok" /\ N > 0 /\ N <= MAX_FILES /\ ReviewableSet # {}

AloneEnd ==
    IF fetchMode # "ok" THEN "raised"
    ELSE IF ReviewRuns /\ (\E i \in ReviewableSet : failPlan[i] > 0) THEN "raised"
    ELSE "returned"

AloneKinds ==
    IF ReviewRuns /\ (\A i \in ReviewableSet : failPlan[i] = 0)
    THEN <<"review_comment", "ops_success">>
    ELSE <<>>

(* C18: whatever the earlier events hit (a fetch failure, a worker failure,
   a policy branch), every event is handled to its end, never stuck, and
   ends and notifies as it would when handled alone: nothing of an earlier
   event is left in the results or the notifications. *)
C18_EventsIndependent ==
    /\ (~Terminal /\ pc # "idle") => ENABLED Next
    /\ Terminal
          => /\ pc = AloneEnd
             /\ [k \in 1..Len(replies) |-> replies[k].kind] = AloneKinds
             /\ \A k \in 1..Len(replies) :
                   IsReviewComment(replies[k])
                       => /\ Len(SelectSeq(replies[k].content, IsNote))
                                 = Cardinality(ReviewableSet)
                          /\ \A i \in ReviewableSet :
                                 HasNoteFor(replies[k].content, i)

\* a second event is reviewed and notified after an event that ended by
\* an exception
C18_Witness ==
    /\ eventNo = 2
    /\ raisedBefore
    /\ Terminal
    /\ Len(replies) = 2
    /\ N >= 2

(* C19: a Success ops summary (target dingtalk) is only emitted right
   after a review comment (target all) with non-empty content; a review
   comment is always followed by the summary, the next thing the handler
   does; both are emitted only after chat_review has returned. *)
C19_CommentThenSummary ==
    /\ \A k \in 1..Len(replies) :
          replies[k].kind = "ops_success"
              => /\ replies[k].target = "dingtalk"
                 /\ k > 1
                 /\ IsReviewComment(replies[k - 1])
                 /\ replies[k - 1].target = "all"
                 /\ replies[k - 1].content # <<>>
    /\ \A k \in 1..Len(replies) :
          IsReviewComment(replies[k])
              => \/ k < Len(replies) /\ replies[k + 1].kind = "ops_success"
                 \/ k = Len(replies) /\ pc = "notify_summary"
    /\ replies # <<>>
          => /\ dispatched
             /\ pc \in {"notify_summary", "returned"}
             /\ review_info # <<>>
             /\ replies[1].content = review_info

\* the comment is out and the summary has followed it
C19_Witness ==
    /\ pc = "returned"
    /\ Len(replies) = 2
    /\ IsReviewComment(replies[1])
    /\ replies[2].kind = "ops_success"

(* C20: whenever default_handle invokes chat_review, the files chat_review
   submits are exactly review_files, review_files is non-empty, and at most
   MAX_FILES changes are passed. *)
C20_FiltersAgree ==
    dispatched
        => /\ Len(changes.items) <= MAX_FILES
           /\ ReviewFiles(changes.items) # <<>>
           /\ \A i \in 1..N :
                 Submitted(i) <=> (i < nextIdx /\ PassesPreCheck(changes.items[i]))
           /\ nextIdx > N
                 => SelectSeq(changes.items, LAMBDA c :
                        \E i \in 1..N : changes.items[i] = c /\ Submitted(i))
                      = ReviewFiles(changes.items)

\* chat_review has gone through a list of exactly MAX_FILES changes and
\* submitted some and skipped others
C20_Witness ==
    /\ dispatched
    /\ N = MAX_FILES
    /\ nextIdx > N
    /\ \E i \in 1..N : Submitted(i)
    /\ \E j \in 1..N : ~Submitted(j)

====
